---- MODULE Spec2Model ----
(***************************************************************************)
(* One run of du-number-checker.py: main -> check_numbers (browser session,*)
(* open_du_number_modal, get_search_box, the per-query loop) -> the        *)
(* Telegram notification.  Python strings are sequences of one-character   *)
(* strings, so that str.replace and the `in` substring test are computed.  *)
(* The browser, the page and the HTTP endpoint are external: every call on *)
(* them has its outcomes chosen nondeterministically.  browser.close() is  *)
(* taken not to raise (Playwright swallows target-closed errors there).    *)
(***************************************************************************)
EXTENDS Integers, Sequences, FiniteSets, TLC

\* ---------------------------------------------------------------- bounds
MaxQueries == 2     \* longest NUMBERS_TO_CHECK list explored
MaxPieces == 2      \* page texts are concatenations of at most this many pieces
MaxCandidates == 2  \* most inputs matched by the fallback locator

\* --------------------------------------------------------------- strings
None == <<"None">>

\* the literal tested at line 198
Marker == <<"N", "o", " ", "r", "e", "s", "u", "l", "t", "s", " ", "f", "o", "u", "n", "d">>

\* first element of `lines` in main
Header == <<"T", "h", "e", " ", "f", "o", "l", "l", "o", "w", "i", "n", "g", " ", "n", "u", "m", "b", "e", "r", "s", " ", "a", "p", "p", "e", "a", "r", " ", "t", "o", " ", "b", "e", " ", "a", "v", "a", "i", "l", "a", "b", "l", "e", " ", "o", "n", " ", "d", "u", ":">>

F1 == <<"2", "8", "2", " ", "0", "2", "0", "2">>
F1n == <<"2", "8", "2", "0", "2", "0", "2">>
F1t == <<"2", "8", "2", "\t", "0", "2", "0", "2">>
F2 == <<"1", "0", "5", "1", "6", "6", "1">>

\* (search_value, match_fragment) tuples a NUMBERS_TO_CHECK list is built from
Queries == { <<F1, F1>>, <<F2, F2>>, <<F1, F1n>> }

\* the NUMBERS_TO_CHECK lists explored; the shipped one is <<F1,F1>>, <<F2,F2>>
Configs == UNION { [1..n -> Queries] : n \in 1..MaxQueries }

\* what page.text_content("body") can hand back
Pieces == { Marker, F1, F1n, F1t, F2 }

RECURSIVE TextsOf(_)
TextsOf(n) ==
    IF n = 0 THEN { <<>> }
    ELSE LET shorter == TextsOf(n - 1)
         IN  shorter \cup { t \o p : t \in shorter, p \in Pieces }

PageTexts == TextsOf(MaxPieces)

\* str.replace(" ", "") with no stripping at all
NormalizeNoStrip(s) == s

\* str.replace(" ", ""), lines 195-196
Normalize(s) == SelectSeq(s, LAMBDA c : c # " ")

\* Python's `needle in hay` on strings
Contains(hay, needle) ==
    \E i \in 0..(Len(hay) - Len(needle)) :
        SubSeq(hay, i + 1, i + Len(needle)) = needle

\* the if/elif/else with the fragment test placed first
ClassifyFragmentFirst(body, fragment) ==
    IF Contains(Normalize(body), Normalize(fragment)) THEN "available"
    ELSE IF Contains(body, Marker) THEN "unavailable"
    ELSE "ambiguous"

\* the if/elif/else of lines 198-204
Classify(body, fragment) ==
    IF Contains(body, Marker) THEN "unavailable"
    ELSE IF Contains(Normalize(body), Normalize(fragment)) THEN "available"
    ELSE "ambiguous"

\* "\n".join(lines)
RECURSIVE Join(_)
Join(lines) ==
    IF Len(lines) = 0 THEN <<>>
    ELSE IF Len(lines) = 1 THEN lines[1]
    ELSE lines[1] \o <<"\n">> \o Join(Tail(lines))

\* the message with the bullets in reverse order
ComposeMessageReversed(av) ==
    Join(<<Header>> \o [i \in 1..Len(av) |-> <<"-", " ">> \o av[Len(av) + 1 - i][2]])

\* lines 230-234 of main
ComposeMessage(av) ==
    Join(<<Header>> \o [i \in 1..Len(av) |-> <<"-", " ">> \o av[i][2]])

\* the value get_search_box returns when a strategy succeeds
Element == <<"element">>

\* the loop of lines 98-107: an element if some candidate's is_visible() is
\* true (an is_visible() that raises is skipped), else None
FirstVisible(cands) ==
    IF \E i \in 1..Len(cands) : cands[i] = "visible" THEN Element ELSE None

CandidateLists == UNION { [1..n -> {"visible", "hidden", "error"}] : n \in 0..MaxCandidates }

\* the values TELEGRAM_BOT_TOKEN / TELEGRAM_CHAT_ID can hold, by class:
\* a real value, the empty string, a string containing "PUT_YOUR"
CredentialValues == { "set", "empty", "placeholder" }

\* negation of the test of line 55
CredentialsUsable(tok, chat) == tok = "set" /\ chat = "set"

\* ----------------------------------------------------------------- state
VARIABLES
    NUMBERS_TO_CHECK,  \* the configured list of (search_value, match_fragment)
    pc,                \* position of the run
    available,         \* the list built by check_numbers
    playwright,        \* "none" | "running" | "stopped": the sync_playwright() context
    browser,           \* "none" | "open" | "closed"
    search_box,        \* <<"unset">> | None | a handle
    idx,               \* position of the for loop in NUMBERS_TO_CHECK (0 before it)
    body_text,         \* the local of line 194
    token,             \* locals of send_telegram_message
    chat_id,
    message,           \* the text handed to send_telegram_message
    outcome,           \* per query: what the loop did with it (observation)
    closeCalls,        \* number of browser.close() calls (observation)
    opsAfterClose,     \* a page / search-box call was made on a closed browser
    modalFailure,      \* the step of open_du_number_modal that failed for good
    modalRaised,       \* an exception left open_du_number_modal
    boxLookup,         \* "notcalled" | "running" | "found" | "none" | "raised"
    sendCalls,         \* calls of send_telegram_message
    posts,             \* HTTP POSTs made
    postResult         \* "none" | "ok" | "bad_status" | "exception"

vars == << NUMBERS_TO_CHECK, pc, available, playwright, browser, search_box, idx,
           body_text, token, chat_id, message, outcome, closeCalls, opsAfterClose,
           modalFailure, modalRaised, boxLookup, sendCalls, posts, postResult >>

config == << NUMBERS_TO_CHECK >>
session == << playwright, browser, closeCalls >>
modal == << modalFailure, modalRaised >>
loopState == << available, idx, body_text, outcome >>
notify == << token, chat_id, message, sendCalls, posts, postResult >>

\* state at the call of main(), with the module-level configuration loaded
Init ==
    /\ NUMBERS_TO_CHECK \in Configs
    /\ pc = "main"
    /\ available = <<>>
    /\ playwright = "none"
    /\ browser = "none"
    /\ search_box = <<"unset">>
    /\ idx = 0
    /\ body_text = <<>>
    /\ token = "unset"
    /\ chat_id = "unset"
    /\ message = <<>>
    /\ outcome = [i \in 1..Len(NUMBERS_TO_CHECK) |-> "pending"]
    /\ closeCalls = 0
    /\ opsAfterClose = FALSE
    /\ modalFailure = "none"
    /\ modalRaised = FALSE
    /\ boxLookup = "notcalled"
    /\ sendCalls = 0
    /\ posts = 0
    /\ postResult = "none"

\* a call on the page or on the search box: records a use after close
PageOp == opsAfterClose' = (opsAfterClose \/ browser = "closed")

\* --------------------------------------------------- check_numbers: entry
\* lines 157-170: available = [], sync_playwright().__enter__, chromium.launch
Launch ==
    /\ pc = "main"
    /\ available' = <<>>
    /\ playwright' = "running"
    /\ \E ok \in BOOLEAN :
          IF ok THEN /\ browser' = "open"
                     /\ pc' = "new_page"
                ELSE /\ browser' = browser
                     /\ pc' = "with_exit_raise"
    /\ UNCHANGED << config, search_box, idx, body_text, outcome, closeCalls,
                    opsAfterClose, modal, boxLookup, notify >>

\* line 171: browser.new_page(), outside the try
NewPage ==
    /\ pc = "new_page"
    /\ \E ok \in BOOLEAN :
          pc' = IF ok THEN "modal_goto" ELSE "with_exit_raise"
    /\ UNCHANGED << config, session, search_box, loopState, opsAfterClose,
                    modal, boxLookup, notify >>

\* an exception leaving the with block: the context manager stops playwright
\* and the exception leaves check_numbers and main
WithExitRaise ==
    /\ pc = "with_exit_raise"
    /\ playwright' = "stopped"
    /\ pc' = "raised"
    /\ UNCHANGED << config, browser, closeCalls, search_box, loopState,
                    opsAfterClose, modal, boxLookup, notify >>

\* ------------------------------------------------- open_du_number_modal
\* an exception leaving open_du_number_modal lands in the except of line 209
ModalRaise(step) ==
    /\ pc' = "outer_except"
    /\ modalFailure' = step
    /\ modalRaised' = TRUE

\* the step succeeded and open_du_number_modal goes on
ModalGoesOn(next) ==
    /\ pc' = next
    /\ UNCHANGED modal

\* lines 113-116: goto; a PlaywrightTimeoutError is caught, anything else is not
Goto ==
    /\ pc = "modal_goto"
    /\ PageOp
    /\ \E r \in {"ok", "timeout", "error"} :
          IF r = "error" THEN ModalRaise("goto") ELSE ModalGoesOn("modal_wait1")
    /\ UNCHANGED << config, session, search_box, loopState, boxLookup, notify >>

\* page.wait_for_timeout at one of lines 117, 132, 149
ModalWait(here, next) ==
    /\ pc = here
    /\ PageOp
    /\ \E ok \in BOOLEAN :
          IF ok THEN ModalGoesOn(next) ELSE ModalRaise("wait")
    /\ UNCHANGED << config, session, search_box, loopState, boxLookup, notify >>

\* line 117
WaitAfterGoto == ModalWait("modal_wait1", "modal_popup")

\* lines 120-127: the popup is dismissed if present; every exception is swallowed
DismissPopup ==
    /\ pc = "modal_popup"
    /\ PageOp
    /\ \E r \in {"absent", "count_error", "clicked", "click_error", "wait_error"} :
          pc' = "modal_setup"
    /\ UNCHANGED << config, session, search_box, loopState, modal,
                    boxLookup, notify >>

\* line 131: the click is not guarded
ClickSetup ==
    /\ pc = "modal_setup"
    /\ PageOp
    /\ \E ok \in BOOLEAN :
          IF ok THEN ModalGoesOn("modal_wait2") ELSE ModalRaise("setup")
    /\ UNCHANGED << config, session, search_box, loopState, boxLookup, notify >>

\* line 132
WaitAfterSetup == ModalWait("modal_wait2", "modal_change")

\* lines 136-139: exact-text "Change"; a failure falls to the scoped locator
ClickChangeExact ==
    /\ pc = "modal_change"
    /\ PageOp
    /\ \E ok \in BOOLEAN :
          pc' = IF ok THEN "modal_wait3" ELSE "modal_change_scoped"
    /\ UNCHANGED << config, session, search_box, loopState, modal,
                    boxLookup, notify >>

\* lines 141-147 with the failure swallowed instead of re-raised
ClickChangeScopedSwallow ==
    /\ pc = "modal_change_scoped"
    /\ PageOp
    /\ \E ok \in BOOLEAN :
          /\ pc' = "modal_wait3"
          /\ modalFailure' = IF ok THEN modalFailure ELSE "change"
          /\ modalRaised' = modalRaised
    /\ UNCHANGED << config, session, search_box, loopState, boxLookup, notify >>

\* lines 141-147: the scoped "Change"; a failure is re-raised
ClickChangeScoped ==
    /\ pc = "modal_change_scoped"
    /\ PageOp
    /\ \E ok \in BOOLEAN :
          IF ok THEN ModalGoesOn("modal_wait3") ELSE ModalRaise("change")
    /\ UNCHANGED << config, session, search_box, loopState, boxLookup, notify >>

\* line 149
WaitAfterChange == ModalWait("modal_wait3", "sb_placeholder")

\* ------------------------------------------------------- get_search_box
\* lines 75-81: placeholder lookup; count() = 0 or an exception moves on
LookupPlaceholder ==
    /\ pc = "sb_placeholder"
    /\ PageOp
    /\ \E r \in {"found", "empty", "error"} :
          IF r = "found"
          THEN /\ search_box' = Element
               /\ boxLookup' = "found"
               /\ pc' = "sb_check"
          ELSE /\ search_box' = search_box
               /\ boxLookup' = "running"
               /\ pc' = "sb_role"
    /\ UNCHANGED << config, session, loopState, modal, notify >>

\* lines 84-90: role/name lookup
LookupRole ==
    /\ pc = "sb_role"
    /\ PageOp
    /\ \E r \in {"found", "empty", "error"} :
          IF r = "found"
          THEN /\ search_box' = Element
               /\ boxLookup' = "found"
               /\ pc' = "sb_check"
          ELSE /\ search_box' = search_box
               /\ boxLookup' = "running"
               /\ pc' = "sb_fallback"
    /\ UNCHANGED << config, session, loopState, modal, notify >>

\* lines 93-107: scan of the text/search inputs; locator() and count() are not
\* guarded, is_visible() is; no visible candidate gives None
LookupFallback ==
    /\ pc = "sb_fallback"
    /\ PageOp
    /\ \/ /\ boxLookup' = "raised"
          /\ search_box' = search_box
          /\ pc' = "outer_except"
       \/ \E cands \in CandidateLists :
            /\ search_box' = FirstVisible(cands)
            /\ boxLookup' = IF FirstVisible(cands) = None THEN "none" ELSE "found"
            /\ pc' = "sb_check"
    /\ UNCHANGED << config, session, loopState, modal, notify >>

\* lines 179-182 without the early return
CheckSearchBoxNoReturn ==
    /\ pc = "sb_check"
    /\ pc' = "loop_head"
    /\ UNCHANGED << config, session, search_box, loopState, opsAfterClose,
                    modal, boxLookup, notify >>

\* lines 179-182: no search box: browser.close() and return available
\* (the return runs the finally clause of line 212 on its way out)
CheckSearchBox ==
    /\ pc = "sb_check"
    /\ IF search_box = None
       THEN /\ browser' = "closed"
            /\ closeCalls' = closeCalls + 1
            /\ pc' = "finally"
       ELSE /\ UNCHANGED << browser, closeCalls >>
            /\ pc' = "loop_head"
    /\ UNCHANGED << config, playwright, search_box, loopState, opsAfterClose,
                    modal, boxLookup, notify >>

\* ------------------------------------------------------- the query loop
\* line 185: next (search_value, match_fragment), or the loop is over
LoopHead ==
    /\ pc = "loop_head"
    /\ IF idx < Len(NUMBERS_TO_CHECK)
       THEN idx' = idx + 1 /\ pc' = "q_click"
       ELSE idx' = idx /\ pc' = "finally"
    /\ UNCHANGED << config, session, search_box, available, body_text, outcome,
                    opsAfterClose, modal, boxLookup, notify >>

\* one guarded call of lines 188-192; a call on None raises
QueryStep(here, next) ==
    /\ pc = here
    /\ PageOp
    /\ \E ok \in (IF search_box = None THEN {FALSE} ELSE BOOLEAN) :
          pc' = IF ok THEN next ELSE "q_except"
    /\ UNCHANGED << config, session, search_box, loopState, modal,
                    boxLookup, notify >>

\* line 188
QueryClick == QueryStep("q_click", "q_fill")

\* line 189
QueryFill == QueryStep("q_fill", "q_press")

\* line 190
QueryPress == QueryStep("q_press", "q_wait")

\* line 192
QueryWait == QueryStep("q_wait", "q_text")

\* line 194: page.text_content("body") or ""
ReadText ==
    /\ pc = "q_text"
    /\ PageOp
    /\ \/ /\ pc' = "q_except"
          /\ body_text' = body_text
       \/ /\ pc' = "q_classify"
          /\ body_text' = <<>>                 \* text_content gave None
       \/ \E t \in PageTexts :
            /\ pc' = "q_classify"
            /\ body_text' = t
    /\ UNCHANGED << config, session, search_box, available, idx, outcome,
                    modal, boxLookup, notify >>

\* lines 195-204
ClassifyResult ==
    /\ pc = "q_classify"
    /\ LET match_fragment == NUMBERS_TO_CHECK[idx][2]
           c == Classify(body_text, match_fragment)
       IN  /\ available' = IF c = "available"
                           THEN Append(available, NUMBERS_TO_CHECK[idx])
                           ELSE available
           /\ outcome' = [outcome EXCEPT ![idx] = c]
    /\ pc' = "loop_head"
    /\ UNCHANGED << config, session, search_box, idx, body_text, opsAfterClose,
                    modal, boxLookup, notify >>

\* the handler of line 205 letting the exception through
QueryExceptAbort ==
    /\ pc = "q_except"
    /\ outcome' = [outcome EXCEPT ![idx] = "failed"]
    /\ pc' = "outer_except"
    /\ UNCHANGED << config, session, search_box, available, idx, body_text,
                    opsAfterClose, modal, boxLookup, notify >>

\* lines 205-207: the per-query handler logs and the loop goes on
QueryExcept ==
    /\ pc = "q_except"
    /\ outcome' = [outcome EXCEPT ![idx] = "failed"]
    /\ pc' = "loop_head"
    /\ UNCHANGED << config, session, search_box, available, idx, body_text,
                    opsAfterClose, modal, boxLookup, notify >>

\* lines 209-211: the outer handler only logs
OuterExcept ==
    /\ pc = "outer_except"
    /\ pc' = "finally"
    /\ UNCHANGED << config, session, search_box, loopState, opsAfterClose,
                    modal, boxLookup, notify >>

\* the finally clause without the close
FinallyNoClose ==
    /\ pc = "finally"
    /\ pc' = "with_exit"
    /\ UNCHANGED << config, session, search_box, loopState, opsAfterClose,
                    modal, boxLookup, notify >>

\* lines 212-213: browser.close()
Finally ==
    /\ pc = "finally"
    /\ browser' = "closed"
    /\ closeCalls' = closeCalls + 1
    /\ pc' = "with_exit"
    /\ UNCHANGED << config, playwright, search_box, loopState, opsAfterClose,
                    modal, boxLookup, notify >>

\* end of the with block, then return available (line 215 or line 182)
WithExit ==
    /\ pc = "with_exit"
    /\ playwright' = "stopped"
    /\ pc' = "main_check"
    /\ UNCHANGED << config, browser, closeCalls, search_box, loopState,
                    opsAfterClose, modal, boxLookup, notify >>

\* ------------------------------------------------------------------ main
\* main without the `if not available: return`
MainCheckAlwaysSend ==
    /\ pc = "main_check"
    /\ message' = ComposeMessage(available)
    /\ pc' = "send"
    /\ UNCHANGED << config, session, search_box, loopState, opsAfterClose,
                    modal, boxLookup, token, chat_id, sendCalls, posts,
                    postResult >>

\* lines 225-236: nothing available: return; otherwise compose the message
MainCheck ==
    /\ pc = "main_check"
    /\ IF Len(available) = 0
       THEN message' = message /\ pc' = "done"
       ELSE message' = ComposeMessage(available) /\ pc' = "send"
    /\ UNCHANGED << config, session, search_box, loopState, opsAfterClose,
                    modal, boxLookup, token, chat_id, sendCalls, posts,
                    postResult >>

\* lines 50-59: the credentials are read; unusable ones skip the POST
SendTelegramMessage ==
    /\ pc = "send"
    /\ sendCalls' = sendCalls + 1
    /\ \E tok \in CredentialValues, chat \in CredentialValues :
          /\ token' = tok
          /\ chat_id' = chat
          /\ pc' = IF CredentialsUsable(tok, chat) THEN "post" ELSE "done"
    /\ UNCHANGED << config, session, search_box, loopState, opsAfterClose,
                    modal, boxLookup, message, posts, postResult >>

\* requests.post without the try/except
PostUnguarded ==
    /\ pc = "post"
    /\ posts' = posts + 1
    /\ \E r \in {"ok", "bad_status", "exception"} :
          /\ postResult' = r
          /\ pc' = IF r = "exception" THEN "raised" ELSE "done"
    /\ UNCHANGED << config, session, search_box, loopState, opsAfterClose,
                    modal, boxLookup, token, chat_id, message, sendCalls >>

\* lines 60-67: one POST; a status other than 200 and an exception are logged
Post ==
    /\ pc = "post"
    /\ posts' = posts + 1
    /\ \E r \in {"ok", "bad_status", "exception"} :
          /\ postResult' = r
          /\ pc' = "done"
    /\ UNCHANGED << config, session, search_box, loopState, opsAfterClose,
                    modal, boxLookup, token, chat_id, message, sendCalls >>

Next ==
    \/ Launch \/ NewPage \/ WithExitRaise
    \/ Goto \/ WaitAfterGoto \/ DismissPopup \/ ClickSetup \/ WaitAfterSetup
    \/ ClickChangeExact \/ ClickChangeScoped \/ WaitAfterChange
    \/ LookupPlaceholder \/ LookupRole \/ LookupFallback \/ CheckSearchBox
    \/ LoopHead \/ QueryClick \/ QueryFill \/ QueryPress \/ QueryWait
    \/ ReadText \/ ClassifyResult \/ QueryExcept \/ OuterExcept
    \/ Finally \/ WithExit
    \/ MainCheck \/ SendTelegramMessage \/ Post

Spec == Init /\ [][Next]_vars

TypeOK ==
    /\ NUMBERS_TO_CHECK \in Configs
    /\ browser \in {"none", "open", "closed"}
    /\ playwright \in {"none", "running", "stopped"}
    /\ idx \in 0..Len(NUMBERS_TO_CHECK)
    /\ closeCalls \in 0..2
    /\ posts \in 0..1

\* ---------------------------------------------------------- properties
\* s with every character of chars removed
RECURSIVE Without(_, _)
Without(s, chars) ==
    IF Len(s) = 0 THEN <<>>
    ELSE IF s[1] \in chars THEN Without(Tail(s), chars)
    ELSE <<s[1]>> \o Without(Tail(s), chars)

Whitespace == { " ", "\t", "\n" }

\* the lines of a text, split at "\n"
RECURSIVE SplitLines(_)
SplitLines(s) ==
    IF \E i \in 1..Len(s) : s[i] = "\n"
    THEN LET i == CHOOSE k \in 1..Len(s) :
                    s[k] = "\n" /\ \A j \in 1..(k - 1) : s[j] # "\n"
         IN  <<SubSeq(s, 1, i - 1)>> \o SplitLines(SubSeq(s, i + 1, Len(s)))
    ELSE <<s>>

\* a is b with some elements left out, order kept
RECURSIVE IsSubsequence(_, _)
IsSubsequence(a, b) ==
    IF Len(a) = 0 THEN TRUE
    ELSE IF Len(b) = 0 THEN FALSE
    ELSE IF a[1] = b[1] THEN IsSubsequence(Tail(a), Tail(b))
    ELSE IsSubsequence(a, Tail(b))

\* the queries the loop classified available, in configuration order
RECURSIVE AvailableUpTo(_)
AvailableUpTo(n) ==
    IF n = 0 THEN <<>>
    ELSE IF outcome[n] = "available"
         THEN Append(AvailableUpTo(n - 1), NUMBERS_TO_CHECK[n])
         ELSE AvailableUpTo(n - 1)

NoQueryAttempted == idx = 0 /\ \A i \in DOMAIN outcome : outcome[i] = "pending"
NothingSent == sendCalls = 0 /\ posts = 0
Returned == pc \in {"main_check", "send", "post", "done"}
ExitPositions == {"outer_except", "finally", "with_exit", "main_check", "done"}

\* C1: a query whose page text contains "No results found" is not added to
\* available, whether or not its fragment also appears in the text.
C1_MarkerExcludes ==
    [][(pc = "q_classify" /\ Contains(body_text, Marker))
          => available' = available]_vars

\* C1 case: a text with both the marker and the fragment was classified
C1_Witness ==
    /\ pc = "loop_head"
    /\ idx >= 1
    /\ outcome[idx] = "unavailable"
    /\ Contains(body_text, Marker)
    /\ Contains(Without(body_text, {" "}), Without(NUMBERS_TO_CHECK[idx][2], {" "}))

\* C2 as stated: without the marker, the query is added exactly when the
\* fragment with all whitespace removed occurs in the text with all
\* whitespace removed.
C2_WhitespaceInsensitive ==
    [][(pc = "q_classify" /\ ~Contains(body_text, Marker))
          => ((available' = Append(available, NUMBERS_TO_CHECK[idx]))
                <=> Contains(Without(body_text, Whitespace),
                             Without(NUMBERS_TO_CHECK[idx][2], Whitespace)))]_vars

\* C2 amended: without the marker, the query is added exactly when the
\* fragment with its space characters removed occurs in the text with its
\* space characters removed; tabs and newlines are kept and compared.
C2_SpaceInsensitive ==
    [][(pc = "q_classify" /\ ~Contains(body_text, Marker))
          => ((available' = Append(available, NUMBERS_TO_CHECK[idx]))
                <=> Contains(Without(body_text, {" "}),
                             Without(NUMBERS_TO_CHECK[idx][2], {" "})))]_vars

\* C2 case: "2820202" found for the fragment "282 0202", which is not a
\* substring of the text as read
C2_Witness ==
    /\ pc = "loop_head"
    /\ idx >= 1
    /\ outcome[idx] = "available"
    /\ available[Len(available)] = NUMBERS_TO_CHECK[idx]
    /\ NUMBERS_TO_CHECK[idx][2] = F1
    /\ Contains(body_text, F1n)
    /\ ~Contains(body_text, F1)

\* C3: with an empty available list, send_telegram_message is not called and
\* no HTTP POST is made.
C3_EmptyMeansSilent ==
    Len(available) = 0 => (NothingSent /\ pc \notin {"send", "post"})

\* C3 case: the loop ran, nothing was available, main has finished
C3_Witness ==
    /\ pc = "done"
    /\ Len(available) = 0
    /\ \A i \in DOMAIN outcome : outcome[i] \in {"unavailable", "ambiguous", "failed"}

\* C4: available is a subsequence of NUMBERS_TO_CHECK in order, and the
\* message is the header line followed by one "- <fragment>" line per
\* available entry in that order.
C4_OrderedMessage ==
    /\ IsSubsequence(available, NUMBERS_TO_CHECK)
    /\ (pc \in {"send", "post", "done"} /\ Len(available) >= 1)
          => /\ Len(SplitLines(message)) = 1 + Len(available)
             /\ SplitLines(message)[1] = Header
             /\ \A i \in 1..Len(available) :
                   SplitLines(message)[i + 1] = <<"-", " ">> \o available[i][2]

\* C4 case: two different numbers were available and the message was composed
C4_Witness ==
    /\ pc = "done"
    /\ Len(available) = 2
    /\ available[1][2] # available[2][2]
    /\ Len(message) > 0

\* C5: a query whose step raised adds nothing to available, the entries of
\* earlier queries stay, and every later query is still attempted: once the
\* loop is entered, it ends with every query classified or failed.
C5_FailureIsolation ==
    /\ available = AvailableUpTo(Len(NUMBERS_TO_CHECK))
    /\ \A i \in 1..(idx - 1) : outcome[i] # "pending"
    /\ (boxLookup = "found" /\ pc \in {"finally", "with_exit", "main_check", "send", "post", "done"})
          => \A i \in DOMAIN outcome : outcome[i] # "pending"

\* C5 case: the first query failed and the second was still found available
C5_Witness ==
    /\ pc = "done"
    /\ Len(NUMBERS_TO_CHECK) = 2
    /\ outcome[1] = "failed"
    /\ outcome[2] = "available"
    /\ available = <<NUMBERS_TO_CHECK[2]>>

\* C6: when no strategy of get_search_box yields a search box, the run only
\* winds down: no query is attempted, available stays empty, nothing is
\* sent and no exception leaves main.
C6_NoSearchBox ==
    boxLookup \in {"none", "raised"}
        => /\ pc \in {"sb_check"} \cup ExitPositions
           /\ NoQueryAttempted
           /\ available = <<>>
           /\ NothingSent

\* C6 case: all three strategies came back empty and main has finished
C6_Witness == pc = "done" /\ boxLookup = "none" /\ search_box = None

\* C7: when the "Setup my plan" click fails, or both "Change" clicks fail,
\* the exception leaves open_du_number_modal and the cycle is aborted: the
\* search box is never looked up, no query is attempted, available stays
\* empty and nothing is sent.
C7_FatalSetup ==
    modalFailure \in {"setup", "change"}
        => /\ modalRaised
           /\ pc \in ExitPositions
           /\ boxLookup = "notcalled"
           /\ search_box = <<"unset">>
           /\ NoQueryAttempted
           /\ available = <<>>
           /\ NothingSent

\* C7 case: both "Change" clicks failed and main has finished
C7_Witness == pc = "done" /\ modalFailure = "change" /\ modalRaised

\* C8: a failed delivery (status other than 200, or an exception of the
\* POST) does not leave send_telegram_message or main, the POST is made at
\* most once and the run completes.
C8_BestEffort ==
    /\ posts <= 1
    /\ sendCalls <= 1
    /\ sendCalls = 1 => pc \in {"post", "done"}
    /\ postResult # "none" => (posts = 1 /\ pc = "done")

\* C8 case: the POST raised and main has finished
C8_Witness == pc = "done" /\ postResult = "exception" /\ posts = 1

\* C9: when check_numbers has returned, the browser it launched is closed,
\* on every path.
C9_BrowserClosed == Returned => browser = "closed"

\* C9 case: check_numbers returned after a fatal setup failure
C9_Witness == pc = "main_check" /\ modalRaised /\ browser = "closed"

\* C10: once the page exists, check_numbers calls browser.close exactly once
\* and makes no page or search-box call after a close.
C10_CloseOnce ==
    /\ closeCalls <= 1
    /\ ~opsAfterClose
    /\ Returned => closeCalls = 1

====
